---- MODULE Spec2Model ----
(***************************************************************************)
(* WebtopClient (src/webtop/client.py): the login / session / webToken     *)
(* cookie handshake of the asynchronous portal client, with several        *)
(* coroutines ("tasks") calling one client instance on one event loop.     *)
(* A coroutine runs without interruption between two awaits of the         *)
(* transport, so every action below is one such stretch of code: from the  *)
(* start of a call to its first HTTP send, or from an HTTP response to the *)
(* next send or to the return / raise.                                     *)
(***************************************************************************)
EXTENDS Integers, FiniteSets, TLC

\* ------------------------------------------------------------------ bounds
\* Number of client calls started in one behaviour.
MaxCalls == 3

\* Coroutines using the client concurrently.
Tasks == {"a", "b"}

\* Tokens the portal may hand out.
Tokens == {"T1", "T2"}

\* Python's None: no session / no webToken cookie / no token carried.
None == "None"

\* ------------------------------------------------------- HTTP responses
\* Status codes the portal answers with (redirects are followed by the
\* transport, so only final codes are seen).
Codes == {200, 400, 401}

\* body:   "garbage" is not JSON, "array" is JSON but no object, "object" is
\*         a JSON object.
\* status: the object's "status" member: the literal true, the literal
\*         false, a truthy value that is not the literal true (1, "true"),
\*         or absent.
\* data:   the object's "data" member: absent / null / empty ("missing"), a
\*         truthy value that is no object ("scalar"), or an object.
\* token:  data's "token" member: absent (None), the empty string, or a token.
Resp(c, b, s, d, k) == [code |-> c, body |-> b, status |-> s, data |-> d, token |-> k]

NoResp == Resp(0, "none", "missing", "missing", None)

\* Answers of the login endpoint.  Members the code never reaches (the data
\* of a body whose status is not true, the body of an error status) are kept
\* to the few cases that show they are not looked at.
LoginResponses ==
    {Resp(200, b, "missing", "missing", None) : b \in {"garbage", "array"}}
    \cup {Resp(200, "object", s, "missing", None) : s \in {"false", "truthy", "missing"}}
    \cup {Resp(200, "object", s, "object", "T1") : s \in {"false", "truthy"}}
    \cup {Resp(200, "object", "true", d, None) : d \in {"missing", "scalar"}}
    \cup {Resp(200, "object", "true", "object", k) : k \in Tokens \cup {None, ""}}
    \cup {Resp(400, "garbage", "missing", "missing", None)}
    \cup {Resp(c, "object", "false", "missing", None) : c \in Codes \ {200}}
    \cup {Resp(400, "object", "true", "object", "T1")}

\* For the other endpoints only the code and whether the body is JSON are
\* looked at.
EndpointResponses ==
    {Resp(c, "object", "missing", "missing", None) : c \in Codes}
    \cup {Resp(200, "garbage", "missing", "missing", None)}

\* ------------------------------------------------------------ the calls
Wrappers == {"get_students", "get_homework", "get_discipline_events",
             "get_preview_unread_notifications", "get_notification_settings",
             "get_messages_inbox", "get_pupil_schedule"}

RequestCalls == Wrappers \cup {"request"}

Path(c) ==
    CASE c = "get_students" -> "/server/api/dashboard/InitDashboard"
      [] c = "get_homework" -> "/server/api/dashboard/GetHomeWork"
      [] c = "get_discipline_events" -> "/server/api/dashboard/GetPupilDiciplineEvents"
      [] c = "get_preview_unread_notifications" -> "/server/api/Menu/GetPreviewUnreadNotifications"
      [] c = "get_notification_settings" -> "/server/api/Notification/GetNotificationsSettings"
      [] c = "get_messages_inbox" -> "/server/api/messageBox/GetMessagesInbox"
      [] c = "get_pupil_schedule" -> "/server/api/PupilCard/GetPupilScheduale"
      [] OTHER -> "<path>"

\* What a call hands back to its caller: a value or a raised exception.
\* code and body are those the exception's message quotes; token is the
\* token of a returned session.
Result(k, w, c, b, tok) == [kind |-> k, why |-> w, code |-> c, body |-> b, token |-> tok]

NoResult == Result("none", "", 0, "none", None)

VARIABLES
    session,      \* self._session: None, or the session (named by its token)
    cookie,       \* self._http.cookies["webToken"], None when not set
    auto_login,   \* self._auto_login
    closed,       \* the transport has been closed
    calls,        \* calls started so far
    pc,           \* per task: "idle", "login_post", "http_request", "done"
    call,         \* per task: the client method it called
    lresp,        \* per task: the login response its call received
    eresp,        \* per task: the endpoint response its call received
    result,       \* per task: what its call returned or raised
    nLogin,       \* per task: login requests its call has sent
    nReq,         \* per task: endpoint requests its call has sent
    carried,      \* per task: the webToken its endpoint request carried
    hadSession,   \* per task: its call's ensure_logged_in found a session
    lastLogin     \* token of the login that succeeded last (history)

client == <<session, cookie, auto_login, closed>>
taskv == <<pc, call, lresp, eresp, result, nLogin, nReq, carried, hadSession>>
vars == <<session, cookie, auto_login, closed, calls, pc, call, lresp, eresp,
          result, nLogin, nReq, carried, hadSession, lastLogin>>

Init ==
    /\ session = None
    /\ cookie = None
    /\ auto_login \in BOOLEAN
    /\ closed = FALSE
    /\ calls = 0
    /\ pc = [t \in Tasks |-> "idle"]
    /\ call = [t \in Tasks |-> "none"]
    /\ lresp = [t \in Tasks |-> NoResp]
    /\ eresp = [t \in Tasks |-> NoResp]
    /\ result = [t \in Tasks |-> NoResult]
    /\ nLogin = [t \in Tasks |-> 0]
    /\ nReq = [t \in Tasks |-> 0]
    /\ carried = [t \in Tasks |-> None]
    /\ hadSession = [t \in Tasks |-> FALSE]
    /\ lastLogin = None

is_logged_in == session # None

\* ------------------------------------------------------------- login()
\* Lines 86-103: what login() makes of the response to its POST, in the
\* order the code tests it.  A Session result means none of the tests raised.
LoginVerdict(r) ==
    IF r.code >= 400
        THEN Result("LoginError", "Login failed", r.code, r.body, None)
    ELSE IF r.body = "garbage"
        THEN Result("LoginError", "Login response is not JSON", 0, "none", None)
    ELSE IF r.body # "object"
        \* body.get on a value that is no dict
        THEN Result("AttributeError", "body.get", 0, "none", None)
    ELSE IF r.status # "true"
        THEN Result("LoginError", "Login returned status=false", 0, "none", None)
    ELSE IF r.data = "scalar"
        \* data.get on a truthy value that is no dict
        THEN Result("AttributeError", "data.get", 0, "none", None)
    ELSE IF r.data = "missing" \/ r.token \in {None, ""}
        THEN Result("LoginError", "data.token is missing", 0, "none", None)
    ELSE Result("Session", "", 0, "none", r.token)

\* Variants of StoreLogin with a plausible slip: the session is built but
\* not stored; the cookie is not set; a session that exists is kept.
StoreLoginNoSession(token) ==
    /\ cookie' = token
    /\ session' = session

StoreLoginNoCookie(token) ==
    /\ cookie' = cookie
    /\ session' = token

StoreLoginKeepFirst(token) ==
    /\ cookie' = IF session = None THEN token ELSE cookie
    /\ session' = IF session = None THEN token ELSE session

\* Lines 105-117: the cookie and the session are set one after the other
\* with no await in between.
StoreLogin(token) ==
    /\ cookie' = token
    /\ session' = token

\* Line 75: the POST of the login request, by a call that has sent `sent`
\* login requests so far.  A closed transport refuses to send and raises.
HttpPostLogin(t, sent) ==
    IF closed
        THEN /\ pc' = [pc EXCEPT ![t] = "done"]
             /\ result' = [result EXCEPT ![t] =
                    Result("TransportError", "client has been closed", 0, "none", None)]
             /\ nLogin' = [nLogin EXCEPT ![t] = sent]
        ELSE /\ pc' = [pc EXCEPT ![t] = "login_post"]
             /\ result' = [result EXCEPT ![t] = NoResult]
             /\ nLogin' = [nLogin EXCEPT ![t] = sent + 1]

\* Line 145: the endpoint request; the transport attaches the cookie jar's
\* webToken as it is at this moment (jar is the jar after this step's own
\* changes), by a call that has sent `sent` endpoint requests so far.
HttpRequest(t, jar, sent) ==
    IF closed
        THEN /\ pc' = [pc EXCEPT ![t] = "done"]
             /\ result' = [result EXCEPT ![t] =
                    Result("TransportError", "client has been closed", 0, "none", None)]
             /\ nReq' = [nReq EXCEPT ![t] = sent]
             /\ carried' = [carried EXCEPT ![t] = None]
        ELSE /\ pc' = [pc EXCEPT ![t] = "http_request"]
             /\ result' = [result EXCEPT ![t] = NoResult]
             /\ nReq' = [nReq EXCEPT ![t] = sent + 1]
             /\ carried' = [carried EXCEPT ![t] = jar]

\* A task that is not inside a call starts call c.
Begin(t, c) ==
    /\ pc[t] \in {"idle", "done"}
    /\ calls < MaxCalls
    /\ calls' = calls + 1
    /\ call' = [call EXCEPT ![t] = c]
    /\ lresp' = [lresp EXCEPT ![t] = NoResp]
    /\ eresp' = [eresp EXCEPT ![t] = NoResp]

\* login(), up to its await of the POST.
login(t) ==
    /\ Begin(t, "login")
    /\ HttpPostLogin(t, 0)
    /\ nReq' = [nReq EXCEPT ![t] = 0]
    /\ carried' = [carried EXCEPT ![t] = None]
    /\ hadSession' = [hadSession EXCEPT ![t] = FALSE]
    /\ UNCHANGED <<client, lastLogin>>

\* ---------------------------------------------------- ensure_logged_in()
\* Variants of EnsureOutcome with a plausible slip: auto-login logs in even
\* when a session exists; the auto-login flag is not consulted.
EnsureOutcomeRelogin ==
    IF auto_login THEN "login"
    ELSE IF session # None THEN "return"
    ELSE "raise"

EnsureOutcomeIgnoreFlag ==
    IF session # None THEN "return" ELSE "login"

\* Lines 121-125: return when a session exists, raise when auto-login is
\* off, log in otherwise.
EnsureOutcome ==
    IF session # None THEN "return"
    ELSE IF ~auto_login THEN "raise"
    ELSE "login"

NotLoggedIn ==
    Result("LoginError", "Not logged in and auto_login=False", 0, "none", None)

ensure_logged_in(t) ==
    /\ Begin(t, "ensure_logged_in")
    /\ hadSession' = [hadSession EXCEPT ![t] = session # None]
    /\ nReq' = [nReq EXCEPT ![t] = 0]
    /\ carried' = [carried EXCEPT ![t] = None]
    /\ CASE EnsureOutcome = "return" ->
              /\ pc' = [pc EXCEPT ![t] = "done"]
              /\ result' = [result EXCEPT ![t] = Result("None", "", 0, "none", None)]
              /\ nLogin' = [nLogin EXCEPT ![t] = 0]
         [] EnsureOutcome = "raise" ->
              /\ pc' = [pc EXCEPT ![t] = "done"]
              /\ result' = [result EXCEPT ![t] = NotLoggedIn]
              /\ nLogin' = [nLogin EXCEPT ![t] = 0]
         [] OTHER -> HttpPostLogin(t, 0)
    /\ UNCHANGED <<client, lastLogin>>

\* ------------------------------------------------------------ request()
\* Lines 139-145, up to the first await that suspends: ensure_logged_in(),
\* then either the endpoint request at once or the lazy login's POST.
RequestCall(t, c) ==
    /\ Begin(t, c)
    /\ hadSession' = [hadSession EXCEPT ![t] = session # None]
    /\ CASE EnsureOutcome = "return" ->
              /\ HttpRequest(t, cookie, 0)
              /\ nLogin' = [nLogin EXCEPT ![t] = 0]
         [] EnsureOutcome = "raise" ->
              /\ pc' = [pc EXCEPT ![t] = "done"]
              /\ result' = [result EXCEPT ![t] = NotLoggedIn]
              /\ nLogin' = [nLogin EXCEPT ![t] = 0]
              /\ nReq' = [nReq EXCEPT ![t] = 0]
              /\ carried' = [carried EXCEPT ![t] = None]
         [] OTHER ->
              /\ HttpPostLogin(t, 0)
              /\ nReq' = [nReq EXCEPT ![t] = 0]
              /\ carried' = [carried EXCEPT ![t] = None]
    /\ UNCHANGED <<client, lastLogin>>

request(t) == RequestCall(t, "request")
get_students(t) == RequestCall(t, "get_students")
get_homework(t) == RequestCall(t, "get_homework")
get_discipline_events(t) == RequestCall(t, "get_discipline_events")
get_preview_unread_notifications(t) == RequestCall(t, "get_preview_unread_notifications")
get_notification_settings(t) == RequestCall(t, "get_notification_settings")
get_messages_inbox(t) == RequestCall(t, "get_messages_inbox")
get_pupil_schedule(t) == RequestCall(t, "get_pupil_schedule")

\* ------------------------------------------------- the awaits resume
\* Variants of LoginResponse with a plausible slip: a failed login is sent
\* again once; a failed login drops the session and the cookie.
LoginResponseRetry(t, r) ==
    /\ pc[t] = "login_post"
    /\ lresp' = [lresp EXCEPT ![t] = r]
    /\ LET v == LoginVerdict(r) IN
       IF v.kind # "Session"
           THEN /\ IF nLogin[t] < 2
                       THEN /\ nLogin' = [nLogin EXCEPT ![t] = @ + 1]
                            /\ UNCHANGED <<pc, result>>
                       ELSE /\ pc' = [pc EXCEPT ![t] = "done"]
                            /\ result' = [result EXCEPT ![t] = v]
                            /\ UNCHANGED nLogin
                /\ UNCHANGED <<session, cookie, lastLogin, nReq, carried>>
           ELSE /\ StoreLogin(v.token)
                /\ lastLogin' = v.token
                /\ UNCHANGED nLogin
                /\ CASE call[t] = "login" ->
                          /\ pc' = [pc EXCEPT ![t] = "done"]
                          /\ result' = [result EXCEPT ![t] =
                                 Result("Session", "", 0, "none", session')]
                          /\ UNCHANGED <<nReq, carried>>
                     [] call[t] = "ensure_logged_in" ->
                          /\ pc' = [pc EXCEPT ![t] = "done"]
                          /\ result' = [result EXCEPT ![t] =
                                 Result("None", "", 0, "none", None)]
                          /\ UNCHANGED <<nReq, carried>>
                     [] OTHER -> HttpRequest(t, cookie', nReq[t])
    /\ UNCHANGED <<auto_login, closed, calls, call, eresp, hadSession>>

LoginResponseClear(t, r) ==
    /\ pc[t] = "login_post"
    /\ lresp' = [lresp EXCEPT ![t] = r]
    /\ LET v == LoginVerdict(r) IN
       IF v.kind # "Session"
           THEN /\ pc' = [pc EXCEPT ![t] = "done"]
                /\ result' = [result EXCEPT ![t] = v]
                /\ session' = None
                /\ cookie' = None
                /\ UNCHANGED <<lastLogin, nReq, carried>>
           ELSE /\ StoreLogin(v.token)
                /\ lastLogin' = v.token
                /\ CASE call[t] = "login" ->
                          /\ pc' = [pc EXCEPT ![t] = "done"]
                          /\ result' = [result EXCEPT ![t] =
                                 Result("Session", "", 0, "none", session')]
                          /\ UNCHANGED <<nReq, carried>>
                     [] call[t] = "ensure_logged_in" ->
                          /\ pc' = [pc EXCEPT ![t] = "done"]
                          /\ result' = [result EXCEPT ![t] =
                                 Result("None", "", 0, "none", None)]
                          /\ UNCHANGED <<nReq, carried>>
                     [] OTHER -> HttpRequest(t, cookie', nReq[t])
    /\ UNCHANGED <<auto_login, closed, calls, call, eresp, nLogin, hadSession>>

\* The login POST of task t is answered with r: lines 86-118, and for a lazy
\* login the rest of ensure_logged_in() and request() up to line 145.
LoginResponse(t, r) ==
    /\ pc[t] = "login_post"
    /\ lresp' = [lresp EXCEPT ![t] = r]
    /\ LET v == LoginVerdict(r) IN
       IF v.kind # "Session"
           THEN /\ pc' = [pc EXCEPT ![t] = "done"]
                /\ result' = [result EXCEPT ![t] = v]
                /\ UNCHANGED <<session, cookie, lastLogin, nReq, carried>>
           ELSE /\ StoreLogin(v.token)
                /\ lastLogin' = v.token
                /\ CASE call[t] = "login" ->
                          /\ pc' = [pc EXCEPT ![t] = "done"]
                          /\ result' = [result EXCEPT ![t] =
                                 Result("Session", "", 0, "none", session')]
                          /\ UNCHANGED <<nReq, carried>>
                     [] call[t] = "ensure_logged_in" ->
                          /\ pc' = [pc EXCEPT ![t] = "done"]
                          /\ result' = [result EXCEPT ![t] =
                                 Result("None", "", 0, "none", None)]
                          /\ UNCHANGED <<nReq, carried>>
                     [] OTHER -> HttpRequest(t, cookie', nReq[t])
    /\ UNCHANGED <<auto_login, closed, calls, call, eresp, nLogin, hadSession>>

\* Variant of RequestVerdict with a plausible slip: > for >=.
RequestVerdictAbove(c, r) ==
    IF r.code > 400
        THEN Result("RequestError", Path(c), r.code, r.body, None)
    ELSE IF c = "request"
        THEN Result("Response", "", r.code, r.body, None)
    ELSE IF r.body = "garbage"
        THEN Result("JSONDecodeError", "", 0, "none", None)
    ELSE Result("Json", "", r.code, r.body, None)

\* Lines 147-150 and the wrapper's resp.json(): the endpoint request of task
\* t is answered with r.
RequestVerdict(c, r) ==
    IF r.code >= 400
        THEN Result("RequestError", Path(c), r.code, r.body, None)
    ELSE IF c = "request"
        THEN Result("Response", "", r.code, r.body, None)
    ELSE IF r.body = "garbage"
        THEN Result("JSONDecodeError", "", 0, "none", None)
    ELSE Result("Json", "", r.code, r.body, None)

\* Variant of RequestResponse with a plausible slip: a 401 answer is taken
\* as the end of the session.
RequestResponseLogout(t, r) ==
    /\ pc[t] = "http_request"
    /\ eresp' = [eresp EXCEPT ![t] = r]
    /\ pc' = [pc EXCEPT ![t] = "done"]
    /\ result' = [result EXCEPT ![t] = RequestVerdict(call[t], r)]
    /\ session' = IF r.code = 401 THEN None ELSE session
    /\ cookie' = IF r.code = 401 THEN None ELSE cookie
    /\ UNCHANGED <<auto_login, closed, calls, call, lresp, nLogin, nReq, carried,
                   hadSession, lastLogin>>

RequestResponse(t, r) ==
    /\ pc[t] = "http_request"
    /\ eresp' = [eresp EXCEPT ![t] = r]
    /\ pc' = [pc EXCEPT ![t] = "done"]
    /\ result' = [result EXCEPT ![t] = RequestVerdict(call[t], r)]
    /\ UNCHANGED <<client, calls, call, lresp, nLogin, nReq, carried, hadSession,
                   lastLogin>>

\* close() (lines 58-59) closes the transport and touches nothing else.
close ==
    /\ ~closed
    /\ closed' = TRUE
    /\ UNCHANGED <<session, cookie, auto_login, calls, taskv, lastLogin>>

\* A request in flight when the transport is closed may fail instead of
\* being answered.
TransportFail(t) ==
    /\ closed
    /\ pc[t] \in {"login_post", "http_request"}
    /\ pc' = [pc EXCEPT ![t] = "done"]
    /\ result' = [result EXCEPT ![t] =
           Result("TransportError", "connection closed", 0, "none", None)]
    /\ UNCHANGED <<client, calls, call, lresp, eresp, nLogin, nReq, carried,
                   hadSession, lastLogin>>

Next ==
    \/ \E t \in Tasks : login(t)
    \/ \E t \in Tasks : ensure_logged_in(t)
    \/ \E t \in Tasks : request(t)
    \/ \E t \in Tasks : get_students(t)
    \/ \E t \in Tasks : get_homework(t)
    \/ \E t \in Tasks : get_discipline_events(t)
    \/ \E t \in Tasks : get_preview_unread_notifications(t)
    \/ \E t \in Tasks : get_notification_settings(t)
    \/ \E t \in Tasks : get_messages_inbox(t)
    \/ \E t \in Tasks : get_pupil_schedule(t)
    \/ \E t \in Tasks, r \in LoginResponses : LoginResponse(t, r)
    \/ \E t \in Tasks, r \in EndpointResponses : RequestResponse(t, r)
    \/ close
    \/ \E t \in Tasks : TransportFail(t)

Spec == Init /\ [][Next]_vars

\* ----------------------------------------------------------- properties
\* The login response the spec calls a success: HTTP status below 400, a
\* body that parses to an object whose status is the literal true and
\* whose data.token is a non-empty string.
GoodLogin(r) ==
    /\ r.code < 400
    /\ r.body = "object"
    /\ r.status = "true"
    /\ r.data = "object"
    /\ r.token \in Tokens

\* This step is the answer to task t's login request.
LoginAnswered(t) ==
    /\ pc[t] = "login_post"
    /\ pc'[t] # "login_post"
    /\ lresp'[t] # NoResp

\* This step sends task t's endpoint request.
Sent(t) == pc[t] # "http_request" /\ pc'[t] = "http_request"

\* This step is the answer to task t's endpoint request.
RequestAnswered(t) ==
    /\ pc[t] = "http_request"
    /\ pc'[t] # "http_request"
    /\ eresp'[t] # NoResp

\* The exceptions login() raises.
LoginFailures == {"LoginError", "AttributeError"}

\* C1: a login answered with a success response stores a session with the
\* server's token (whatever session was stored before), sets the webToken
\* cookie to that token and, called directly, returns that session; the
\* cookie changes at no other step, and every endpoint request sent carries
\* the cookie as it is then.
C1_Step ==
    \A t \in Tasks :
        /\ (LoginAnswered(t) /\ GoodLogin(lresp'[t])) =>
              /\ session' = lresp'[t].token
              /\ cookie' = lresp'[t].token
              /\ (call[t] = "login" =>
                     /\ pc'[t] = "done"
                     /\ result'[t] = Result("Session", "", 0, "none", lresp'[t].token))
              /\ (pc'[t] = "http_request" => carried'[t] = lresp'[t].token)
        /\ Sent(t) => carried'[t] = cookie'

C1_CookieKept ==
    cookie' # cookie => \E t \in Tasks : LoginAnswered(t) /\ GoodLogin(lresp'[t])

C1_LoginStoresToken == [][C1_Step /\ C1_CookieKept]_vars

\* A direct login() has returned the session with token T2, and another
\* task's wrapper, which found that session, has its request in flight
\* carrying webToken=T2.
C1_Witness ==
    \E t, u \in Tasks :
        /\ call[t] = "login" /\ pc[t] = "done"
        /\ GoodLogin(lresp[t]) /\ lresp[t].token = "T2"
        /\ result[t].kind = "Session" /\ result[t].token = "T2"
        /\ session = "T2" /\ cookie = "T2"
        /\ call[u] \in Wrappers /\ pc[u] = "http_request"
        /\ hadSession[u] /\ nLogin[u] = 0 /\ carried[u] = "T2"

\* C2 (as claimed): login() raises LoginError whenever the response has
\* status >= 400, or a body that does not parse, or a status member that is
\* not the literal true, or no non-empty data.token; and then it returns no
\* session.  (A body that is no object has no status member, a data that is
\* no object has no token.)
BadLogin(r) ==
    \/ r.code >= 400
    \/ r.body = "garbage"
    \/ r.status # "true"
    \/ r.data # "object"
    \/ r.token \in {None, ""}

C2_BadLoginRaisesLoginError ==
    \A t \in Tasks :
        (pc[t] = "done" /\ call[t] = "login" /\ lresp[t] # NoResp /\ BadLogin(lresp[t]))
            => result[t].kind = "LoginError"

\* C3: a call whose endpoint response has status >= 400 ends with a
\* RequestError quoting that status and body, and a call whose login
\* response has status >= 400 ends with a LoginError quoting them, without
\* any endpoint request; neither hands a response or a session to the caller.
C3_ErrorStatusRaises ==
    \A t \in Tasks :
        /\ (pc[t] = "done" /\ eresp[t] # NoResp /\ eresp[t].code >= 400) =>
              /\ result[t].kind = "RequestError"
              /\ result[t].code = eresp[t].code
              /\ result[t].body = eresp[t].body
              /\ result[t].why = Path(call[t])
        /\ (pc[t] = "done" /\ lresp[t] # NoResp /\ lresp[t].code >= 400) =>
              /\ result[t].kind = "LoginError"
              /\ result[t].code = lresp[t].code
              /\ result[t].body = lresp[t].body
              /\ nReq[t] = 0
              /\ eresp[t] = NoResp

\* A wrapper that logged in lazily got status 400 from its endpoint and
\* raised RequestError, and a login answered with 401 raised LoginError.
C3_Witness ==
    \E t, u \in Tasks :
        /\ call[t] \in Wrappers /\ pc[t] = "done"
        /\ ~hadSession[t] /\ nLogin[t] = 1 /\ GoodLogin(lresp[t])
        /\ eresp[t].code = 400 /\ result[t].kind = "RequestError"
        /\ call[u] = "login" /\ pc[u] = "done"
        /\ lresp[u].code = 401 /\ result[u].kind = "LoginError"

\* C4: an ensure_logged_in() that finds a session returns at once, having
\* sent no login and no endpoint request, whatever the auto-login flag; and
\* the step leaves the session and the cookie as they were.
C4_Inv ==
    \A t \in Tasks :
        (call[t] = "ensure_logged_in" /\ pc[t] # "idle" /\ hadSession[t]) =>
            /\ pc[t] = "done"
            /\ result[t].kind = "None"
            /\ nLogin[t] = 0 /\ nReq[t] = 0
            /\ lresp[t] = NoResp /\ eresp[t] = NoResp

C4_Step ==
    (calls' # calls /\ session # None) => (session' = session /\ cookie' = cookie)

C4_EnsureIsNoOp == []C4_Inv /\ [][C4_Step]_vars

\* With auto-login on, both tasks have called ensure_logged_in() on a client
\* that is logged in, and both returned without any request.
C4_Witness ==
    /\ auto_login
    /\ session # None /\ cookie = session
    /\ \A t \in Tasks :
           /\ call[t] = "ensure_logged_in" /\ pc[t] = "done"
           /\ hadSession[t] /\ result[t].kind = "None" /\ nLogin[t] = 0

\* C5: a call whose ensure_logged_in() finds no session: with auto-login
\* off it raises LoginError having sent nothing; with auto-login on it calls
\* login() once (one login request, none when the transport is closed), sends
\* its endpoint request or returns only after that login was answered with
\* a success, and otherwise ends with what that login raised.
Authenticated == RequestCalls \cup {"ensure_logged_in"}

C6_Step ==
    /\ session # None => session' # None
    /\ session' # session => \E t \in Tasks : LoginAnswered(t) /\ GoodLogin(lresp'[t])
    /\ \A t \in Tasks :
           RequestAnswered(t) =>
               /\ pc'[t] = "done"
               /\ nLogin'[t] = nLogin[t]
               /\ UNCHANGED <<session, cookie>>
               /\ \A u \in Tasks : pc'[u] = "login_post" => pc[u] = "login_post"

C6_LoginStateMonotonic == (session = None) /\ [][C6_Step]_vars

\* The client is still logged in after a re-login that failed, an endpoint
\* call answered with 401 and close().
C6_Witness ==
    /\ is_logged_in
    /\ closed
    /\ \E t, u \in Tasks :
           /\ call[t] = "login" /\ pc[t] = "done" /\ result[t].kind = "LoginError"
           /\ call[u] \in Wrappers /\ pc[u] = "done"
           /\ eresp[u].code = 401 /\ result[u].kind = "RequestError"

\* C7: a call sends at most one login request and at most one endpoint
\* request, a login() exactly one login request (none on a closed
\* transport); a call whose login failed has sent no endpoint request; and an
\* endpoint request is sent only at a moment when a session exists.
C7_Inv ==
    \A t \in Tasks :
        /\ nLogin[t] <= 1
        /\ nReq[t] <= 1
        /\ (call[t] = "login" /\ pc[t] # "idle") =>
               (nLogin[t] = 1 \/ result[t].kind = "TransportError")
        /\ result[t].kind \in LoginFailures => (nReq[t] = 0 /\ eresp[t] = NoResp)
        /\ (pc[t] = "done" /\ lresp[t] # NoResp /\ ~GoodLogin(lresp[t])) =>
               (result[t].kind \in LoginFailures /\ nReq[t] = 0)
        /\ call[t] \notin RequestCalls => nReq[t] = 0

C7_Step ==
    \A t \in Tasks :
        Sent(t) => (session' # None /\ (hadSession'[t] \/ GoodLogin(lresp'[t])))

C7_OrderingNoRetry == []C7_Inv /\ [][C7_Step]_vars

\* One wrapper's lazy login failed and it sent no endpoint request; the
\* other wrapper's lazy login succeeded and its one endpoint request is out.
C7_Witness ==
    \E t, u \in Tasks :
        /\ call[t] \in Wrappers /\ pc[t] = "done" /\ ~hadSession[t]
        /\ nLogin[t] = 1 /\ result[t].kind = "LoginError" /\ nReq[t] = 0
        /\ call[u] \in Wrappers /\ pc[u] = "http_request" /\ ~hadSession[u]
        /\ nLogin[u] = 1 /\ nReq[u] = 1 /\ GoodLogin(lresp[u])

\* C8: whatever logins run side by side, the stored session is the one of
\* the login that succeeded last, with its cookie; and every authenticated
\* call whose lazy login succeeded has gone on to its endpoint request
\* (unless the transport was closed under it).
C8_RedundantLogins ==
    /\ session = lastLogin
    /\ cookie = lastLogin
    /\ \A t \in Tasks :
           (call[t] \in RequestCalls /\ ~hadSession[t] /\ GoodLogin(lresp[t])) =>
               (nReq[t] = 1 \/ result[t].kind = "TransportError")

\* Two wrappers started on a client without session each found none, each
\* sent its own login, each login succeeded (with tokens T1, then T2), each
\* sent its endpoint request, and the session left is the later login's.
C8_Witness ==
    \E t, u \in Tasks :
        /\ call[t] \in Wrappers /\ call[u] \in Wrappers
        /\ ~hadSession[t] /\ ~hadSession[u]
        /\ nLogin[t] = 1 /\ nLogin[u] = 1
        /\ lresp[t].token = "T1" /\ lresp[u].token = "T2"
        /\ nReq[t] = 1 /\ nReq[u] = 1
        /\ carried[t] = "T1" /\ carried[u] = "T2"
        /\ pc[t] = "done" /\ pc[u] = "done"
        /\ result[t].kind = "Json" /\ result[u].kind = "Json"
        /\ session = "T2"

\* C9: in every state the webToken cookie is set exactly when a session
\* exists and then equals the session's token; and an endpoint request is
\* sent carrying the token of the session stored at that moment.
C9_Inv ==
    /\ (cookie # None) <=> (session # None)
    /\ cookie = session

C9_Step ==
    \A t \in Tasks : Sent(t) => (carried'[t] = session' /\ carried'[t] \in Tokens)

C9_CookieIsSessionToken == []C9_Inv /\ [][C9_Step]_vars

\* A request sent with webToken=T1 is still in flight while a re-login has
\* replaced session and cookie by T2.
C9_Witness ==
    \E t, u \in Tasks :
        /\ pc[t] = "http_request" /\ carried[t] = "T1"
        /\ call[u] = "login" /\ pc[u] = "done" /\ result[u].token = "T2"
        /\ session = "T2" /\ cookie = "T2"

\* C10: the answer to a login that fails leaves the session and the cookie
\* as they were; and the session and the cookie only ever change together,
\* to the same token.
C10_Step ==
    /\ \A t \in Tasks :
           (LoginAnswered(t) /\ result'[t].kind \in LoginFailures) =>
               (session' = session /\ cookie' = cookie)
    /\ (session' # session \/ cookie' # cookie) =>
           (session' = cookie' /\ session' \in Tokens)

C10_FailedLoginChangesNothing == [][C10_Step]_vars

\* On a client logged in with T1, a re-login failed for a missing token and
\* another for an error status; session and cookie are still T1.
C10_Witness ==
    \E t, u \in Tasks :
        /\ call[t] = "login" /\ pc[t] = "done"
        /\ result[t].kind = "LoginError" /\ lresp[t].code = 200 /\ lresp[t].status = "true"
        /\ call[u] = "login" /\ pc[u] = "done"
        /\ result[u].kind = "LoginError" /\ lresp[u].code >= 400
        /\ session = "T1" /\ cookie = "T1"

====
